---- MODULE Spec2Model ----
(***************************************************************************)
(* Model of the four M5Stack dual-stepper sketches under src/Examples.     *)
(*                                                                         *)
(* Each sketch is the same coordinator (setup, loop, moveBothMotors,       *)
(* drawStatus and, in two of them, updateSpeed) around two stepper         *)
(* channels.  The variable `variant' selects the sketch:                   *)
(*   "Basic"    2MotorControlBasic.cpp                      (v1.0)         *)
(*   "Basic16"  2MotorControlBasic16Step.cpp                (v2.0)         *)
(*   "AdjSpeed" 2MotorControlBasic16StepAdjSpeed.cpp        (v2.1)         *)
(*   "Accel"    2MotorControlBasic16StepAdj-spd-rev-accel.cpp (v2.7)       *)
(*                                                                         *)
(* The stepper channel itself (the object behind steppers[i]) is not part  *)
(* of src/; it is modelled from spec.md section 4.1 (AxisChannel).         *)
(***************************************************************************)
EXTENDS Integers, Sequences, FiniteSets, TLC

VARIABLES
    variant,            \* which sketch runs
    grain,              \* "coarse": a tick emits a batch; "pulse": one pulse
    steppers,           \* steppers[i]: TRUE iff the handle is non-null
    ch,                 \* ch[i]: the AxisChannel behind steppers[i]
    pulseCounts,        \* long pulseCounts[2]
    currentSpeedIndex,  \* int currentSpeedIndex
    pc,                 \* "idle": in loop(); "wait": in the wait loop
    shown,              \* the counts last drawn by drawStatus()
    calls,              \* calls[i]: channel calls made by the latest handler
    last,               \* the latest command and the state it started from
    idxHist,            \* the index before each of the latest updateSpeed calls
    moves,              \* number of move commands issued so far
    peak                \* peak[i]: highest rate of ch[i] since its last move()

vars == <<variant, grain, steppers, ch, pulseCounts, currentSpeedIndex, pc,
          shown, calls, last, idxHist, moves, peak>>

(***************************************************************************)
(* Bounds of the model.                                                    *)
(***************************************************************************)
MaxMoves == 3
TicksPerMove == 3
MaxRampSteps == 16

Variants == {"Basic", "Basic16", "AdjSpeed", "Accel"}
Axes == {0, 1}

(***************************************************************************)
(* Program constants.                                                      *)
(***************************************************************************)
FULL_STEP_PER_REV == 200

MICRO_STEPS(v) == IF v = "Basic" THEN 1 ELSE 16

STEPS_PER_REV(v) == FULL_STEP_PER_REV * MICRO_STEPS(v)

\* Only the v2.7 sketch has the variable; the others move one revolution.
revolutionsPerMove(v) == IF v = "Accel" THEN 5 ELSE 1

\* accelerationRate in v2.7, the literal 500 passed by the other setups.
accelerationRate(v) == IF v = "Accel" THEN 2000 ELSE 500

HasProfile(v) == v \in {"AdjSpeed", "Accel"}

\* The speed table; the sketches without a table set 500 Hz once in setup.
speedLevels(v) ==
    IF v = "Accel" THEN <<0, 1600, 3200, 4800, 6400, 8000>>
    ELSE IF v = "AdjSpeed" THEN <<0, 100, 200, 300, 400, 500>>
    ELSE <<500>>

speedPercentages(v) ==
    IF HasProfile(v) THEN <<0, 20, 40, 60, 80, 100>> ELSE <<100>>

speedLevelsCount(v) == Len(speedLevels(v))

\* speedLevels[currentSpeedIndex], the C array being 0-based.
SpeedAt(v, idx) == speedLevels(v)[idx + 1]

(***************************************************************************)
(* AxisChannel (spec.md 4.1).                                              *)
(***************************************************************************)
Min(a, b) == IF a < b THEN a ELSE b
Max(a, b) == IF a > b THEN a ELSE b
Abs(x) == IF x < 0 THEN -x ELSE x
Sign(x) == IF x < 0 THEN -1 ELSE IF x > 0 THEN 1 ELSE 0

\* Bisection for floor(sqrt(x)) in lo..hi; the midpoint is bound by a
\* quantifier so that it is computed once per level.
RECURSIVE ISqrtIn(_, _, _)
ISqrtIn(lo, hi, x) ==
    IF lo >= hi THEN lo
    ELSE CHOOSE r \in {IF mid * mid <= x THEN ISqrtIn(mid, hi, x)
                                          ELSE ISqrtIn(lo, mid - 1, x) :
                       mid \in {(lo + hi + 1) \div 2}} : TRUE

\* floor(sqrt(x)) for 0 <= x
ISqrt(x) == ISqrtIn(0, Min(x, 46340), x)

\* Steps of constant acceleration a needed to reach rate v: ceil(v^2 / 2a).
RampDistance(a, v) ==
    IF a = 0 THEN 0 ELSE (v * v + 2 * a - 1) \div (2 * a)

\* Faulty variant of the ramp: no deceleration before the end of the move.
RampStepsNoDecel(a, v, total, remaining) ==
    Min(total - remaining + 1, RampDistance(a, v))

\* Number of ramp steps the channel is at while `remaining' pulses of a move
\* of `total' pulses are still to be emitted.
RampSteps(a, v, total, remaining) ==
    Min(Min(total - remaining + 1, remaining), RampDistance(a, v))

\* Instantaneous rate: v^2 = 2 a s during the ramps, capped by the target.
RampRate(a, v, total, remaining) ==
    IF remaining = 0 \/ v = 0 THEN 0
    ELSE Min(v, Max(1, ISqrt(2 * a * RampSteps(a, v, total, remaining))))

NoChannel ==
    [direction |-> 1, target_steps |-> 0, move_steps |-> 0,
     current_rate_hz |-> 0, target_rate_hz |-> 0, acceleration |-> 0,
     cumulative_pulses |-> 0]

SetAcceleration(c, a) == [c EXCEPT !.acceleration = a]

SetSpeedInHz(c, hz) == [c EXCEPT !.target_rate_hz = hz]

\* Faulty variant of stop(): the channel decelerates over its ramp steps.
StopMoveDecel(c) ==
    [c EXCEPT !.target_steps =
                  Min(c.target_steps,
                      RampSteps(c.acceleration, c.target_rate_hz,
                                c.move_steps, c.target_steps))]

StopMove(c) == [c EXCEPT !.current_rate_hz = 0, !.target_steps = 0]

IsRunning(c) == c.target_steps > 0 \/ c.current_rate_hz > 0

\* Faulty variant of move(): the zero-rate test is missing.
MoveChAtAnyRate(c, steps) ==
    IF steps = 0 THEN c
    ELSE [c EXCEPT !.direction = Sign(steps),
                   !.target_steps = Abs(steps),
                   !.move_steps = Abs(steps),
                   !.current_rate_hz =
                       RampRate(c.acceleration, c.target_rate_hz,
                                Abs(steps), Abs(steps))]

MoveCh(c, steps) ==
    IF c.target_rate_hz = 0 THEN StopMove(c)
    ELSE IF steps = 0 THEN c
    ELSE [c EXCEPT !.direction = Sign(steps),
                   !.target_steps = Abs(steps),
                   !.move_steps = Abs(steps),
                   !.current_rate_hz =
                       RampRate(c.acceleration, c.target_rate_hz,
                                Abs(steps), Abs(steps))]

\* n pulses leave the step pin (1 <= n <= target_steps).
EmitPulses(c, n) ==
    [c EXCEPT !.target_steps = c.target_steps - n,
              !.cumulative_pulses = c.cumulative_pulses + c.direction * n,
              !.current_rate_hz =
                  RampRate(c.acceleration, c.target_rate_hz,
                           c.move_steps, c.target_steps - n)]

\* Pulses one firing of the tick source lets a channel emit.
Quantum(c) ==
    IF grain = "pulse" THEN 1
    ELSE Min(c.target_steps,
             (c.move_steps + TicksPerMove - 1) \div TicksPerMove)

(***************************************************************************)
(* The sketch.                                                             *)
(***************************************************************************)
\* Faulty variant of the null test: every handle is used.
BoundAlways(i) == TRUE

\* if (steppers[i])
Bound(i) == steppers[i]

\* setup(): the per-channel configuration of a bound channel.
SetupChannel(v) ==
    SetSpeedInHz(SetAcceleration(NoChannel, accelerationRate(v)),
                 SpeedAt(v, 0))

\* speedLevels[currentSpeedIndex] as the handlers read it.
SelectedRate == SpeedAt(variant, currentSpeedIndex)

\* The snapshot a handler starts from, with the one the handler before it
\* started from (history, for the properties).
Started(cmd, steps, rate) ==
    [cmd |-> cmd, steps |-> steps, rate |-> rate, counts |-> pulseCounts,
     pulses |-> [i \in Axes |-> ch[i].cumulative_pulses],
     prevCmd |-> last.cmd, prevSteps |-> last.steps,
     prevRate |-> last.rate, prevCounts |-> last.counts,
     prevPulses |-> last.pulses]

\* if (speedLevels[currentSpeedIndex] == 0) at the head of moveBothMotors;
\* only the v2.7 sketch has the test.
SkipsMove(v, idx) == v = "Accel" /\ SpeedAt(v, idx) = 0

\* One call of the sketch on a channel, and a sequence of them in order.
ApplyCall(c, call) ==
    CASE call[1] = "setAcceleration" -> SetAcceleration(c, call[2])
      [] call[1] = "setSpeedInHz" -> SetSpeedInHz(c, call[2])
      [] call[1] = "move" -> MoveCh(c, call[2])
      [] call[1] = "stopMove" -> StopMove(c)

RECURSIVE ApplyCalls(_, _)
ApplyCalls(c, cs) ==
    IF cs = <<>> THEN c ELSE ApplyCalls(ApplyCall(c, Head(cs)), Tail(cs))

\* Faulty variant of the stop: the wrong setter is given the 0.
StopCallsWrongSetter == << <<"setAcceleration", 0>>, <<"stopMove", 0>> >>

\* setSpeedInHz(0); stopMove();
StopCalls == << <<"setSpeedInHz", 0>>, <<"stopMove", 0>> >>

StopChannel(c) == ApplyCalls(c, StopCalls)

\* Faulty variant of the per-channel loop: move() before the configuration.
IssueCallsMoveFirst(v, idx, steps) ==
    IF v = "Accel"
    THEN << <<"move", steps>>,
            <<"setAcceleration", accelerationRate(v)>>,
            <<"setSpeedInHz", SpeedAt(v, idx)>> >>
    ELSE << <<"move", steps>> >>

\* The body of the per-channel loop that issues the move: the calls it
\* makes, and what they do to the channel.
IssueCalls(v, idx, steps) ==
    IF v = "Accel"
    THEN << <<"setAcceleration", accelerationRate(v)>>,
            <<"setSpeedInHz", SpeedAt(v, idx)>>, <<"move", steps>> >>
    ELSE << <<"move", steps>> >>

IssueMove(v, idx, c, steps) == ApplyCalls(c, IssueCalls(v, idx, steps))

\* Faulty variants of the counter update: += abs(steps), and = steps.
AddStepsAbs(count, steps) == count + Abs(steps)

AddStepsAssign(count, steps) == steps

\* pulseCounts[i] += steps
AddSteps(count, steps) == count + steps

\* Faulty variants of the wait condition: only the X stepper tested, && for
\* ||, isRunning() left out, and no wait at all.
RunningFirst(c) == Bound(0) /\ IsRunning(c[0])

RunningBoth(c) ==
    (Bound(0) /\ IsRunning(c[0])) /\ (Bound(1) /\ IsRunning(c[1]))

RunningAnyHandle(c) == Bound(0) \/ Bound(1)

RunningNever(c) == FALSE

\* The condition of the wait loop, over the channels c.
RunningAny(c) ==
    (Bound(0) /\ IsRunning(c[0])) \/ (Bound(1) /\ IsRunning(c[1]))

\* drawStatus()
drawStatus(counts) == counts

\* moveBothMotors(steps) up to its first test of the wait loop, and, when
\* the function returns at once, the drawStatus() that follows it in loop().
moveBothMotors(steps) ==
    /\ pc = "idle"
    /\ moves < MaxMoves
    /\ moves' = moves + 1
    /\ last' = Started("move", steps, SelectedRate)
    /\ IF SkipsMove(variant, currentSpeedIndex)
       THEN /\ ch' = [i \in Axes |->
                        IF Bound(i) THEN StopChannel(ch[i]) ELSE ch[i]]
            /\ calls' = [i \in Axes |->
                           IF Bound(i) THEN StopCalls ELSE <<>>]
            /\ pulseCounts' = pulseCounts
            /\ pc' = "idle"
            /\ shown' = drawStatus(pulseCounts)
            /\ peak' = peak
       ELSE LET moved == [i \in Axes |->
                            IF Bound(i)
                            THEN IssueMove(variant, currentSpeedIndex,
                                           ch[i], steps)
                            ELSE ch[i]]
                counted == [i \in Axes |->
                              IF Bound(i)
                              THEN AddSteps(pulseCounts[i], steps)
                              ELSE pulseCounts[i]]
            IN /\ ch' = moved
               /\ calls' = [i \in Axes |->
                              IF Bound(i)
                              THEN IssueCalls(variant, currentSpeedIndex,
                                              steps)
                              ELSE <<>>]
               /\ pulseCounts' = counted
               /\ peak' = [i \in Axes |->
                             IF Bound(i) THEN moved[i].current_rate_hz
                                         ELSE peak[i]]
               /\ IF RunningAny(moved)
                  THEN pc' = "wait" /\ shown' = shown
                  ELSE pc' = "idle" /\ shown' = drawStatus(counted)
    /\ UNCHANGED <<variant, grain, steppers, currentSpeedIndex, idxHist>>

\* The wait loop finds no bound channel running: moveBothMotors returns and
\* loop() calls drawStatus().
WaitDone ==
    /\ pc = "wait"
    /\ ~RunningAny(ch)
    /\ pc' = "idle"
    /\ shown' = drawStatus(pulseCounts)
    /\ UNCHANGED <<variant, grain, steppers, ch, pulseCounts,
                   currentSpeedIndex, calls, last, idxHist, moves, peak>>

\* Faulty variants of the wrap: one entry early, and a clamp at the last
\* entry.
NextSpeedIndexEarly(v, idx) ==
    IF idx + 1 >= speedLevelsCount(v) - 1 THEN 0 ELSE idx + 1

NextSpeedIndexClamp(v, idx) ==
    IF idx + 1 >= speedLevelsCount(v) THEN idx ELSE idx + 1

\* currentSpeedIndex++; if (currentSpeedIndex >= speedLevelsCount) ... = 0;
NextSpeedIndex(v, idx) ==
    IF idx + 1 >= speedLevelsCount(v) THEN 0 ELSE idx + 1

\* Faulty variant of updateSpeed: at the zero entry the channel is stopped
\* but not given the rate.
ApplySpeedCallsStopOnly(v, hz) ==
    IF v = "Accel" /\ hz = 0 THEN << <<"stopMove", 0>> >>
    ELSE << <<"setSpeedInHz", hz>> >>

\* What updateSpeed does to one bound channel once the entry is selected:
\* the calls it makes, and what they do to the channel.
ApplySpeedCalls(v, hz) ==
    IF v = "Accel" /\ hz = 0 THEN StopCalls
    ELSE << <<"setSpeedInHz", hz>> >>

ApplySpeed(v, c, hz) == ApplyCalls(c, ApplySpeedCalls(v, hz))

\* The window of the indices before the latest speedLevelsCount calls.
Window(h, idx, n) ==
    IF Len(h) < n THEN Append(h, idx) ELSE Append(Tail(h), idx)

updateSpeed ==
    /\ pc = "idle"
    /\ HasProfile(variant)
    /\ LET idx == NextSpeedIndex(variant, currentSpeedIndex)
           hz == SpeedAt(variant, idx)
       IN /\ currentSpeedIndex' = idx
          /\ ch' = [i \in Axes |->
                      IF Bound(i) THEN ApplySpeed(variant, ch[i], hz)
                                  ELSE ch[i]]
          /\ calls' = [i \in Axes |->
                         IF Bound(i) THEN ApplySpeedCalls(variant, hz)
                                     ELSE <<>>]
          /\ last' = Started("speed", 0, hz)
    /\ idxHist' = Window(idxHist, currentSpeedIndex,
                         speedLevelsCount(variant))
    /\ UNCHANGED <<variant, grain, steppers, pulseCounts, pc, shown, moves,
                   peak>>

\* The periodic tick source lets channel i emit its next pulses.
Tick(i) ==
    /\ ch[i].target_steps > 0
    /\ ch' = [ch EXCEPT ![i] = EmitPulses(ch[i], Quantum(ch[i]))]
    /\ peak' = [peak EXCEPT ![i] = Max(peak[i], ch'[i].current_rate_hz)]
    /\ UNCHANGED <<variant, grain, steppers, pulseCounts, currentSpeedIndex,
                   pc, shown, calls, last, idxHist, moves>>

\* loop(): the three buttons.
PressSteps(v) == STEPS_PER_REV(v) * revolutionsPerMove(v)

BtnA == moveBothMotors(PressSteps(variant))

BtnC == moveBothMotors(-PressSteps(variant))

BtnB == updateSpeed

Init ==
    /\ variant \in Variants
    /\ grain = "coarse"
    /\ steppers \in [Axes -> BOOLEAN]
    /\ ch = [i \in Axes |-> IF steppers[i] THEN SetupChannel(variant)
                                          ELSE NoChannel]
    /\ pulseCounts = [i \in Axes |-> 0]
    /\ currentSpeedIndex = 0
    /\ pc = "idle"
    /\ shown = [i \in Axes |-> 0]
    /\ calls = [i \in Axes |-> <<>>]
    /\ last = [cmd |-> "none", steps |-> 0, rate |-> 0,
               counts |-> [i \in Axes |-> 0], pulses |-> [i \in Axes |-> 0],
               prevCmd |-> "none", prevSteps |-> 0, prevRate |-> 0,
               prevCounts |-> [i \in Axes |-> 0],
               prevPulses |-> [i \in Axes |-> 0]]
    /\ idxHist = <<>>
    /\ moves = 0
    /\ peak = [i \in Axes |-> 0]

TickAny == \E i \in Axes : Tick(i)

Next == BtnA \/ BtnC \/ BtnB \/ TickAny \/ WaitDone

Spec == Init /\ [][Next]_vars

\* The tick source keeps firing for each channel, and the polling loop of
\* moveBothMotors keeps running.
Fairness ==
    /\ WF_vars(Tick(0))
    /\ WF_vars(Tick(1))
    /\ WF_vars(WaitDone)

SpecLive == Spec /\ Fairness

(***************************************************************************)
(* The ramp of one channel, pulse by pulse: the full-step sketch with only *)
(* the X stepper bound, its channel configured with an (acceleration,      *)
(* rate) pair of RampConfigs, and one call moveBothMotors(steps).          *)
(***************************************************************************)
RampConfigs ==
    {<<1, 3>>, <<1, 4>>, <<2, 4>>,
     <<accelerationRate("Basic"), SpeedAt("Basic", 0)>>}

RampStepCounts == (1..MaxRampSteps) \cup {PressSteps("Basic")}

InitRamp ==
    /\ variant = "Basic"
    /\ grain = "pulse"
    /\ steppers = [i \in Axes |-> i = 0]
    /\ \E cfg \in RampConfigs :
          ch = [i \in Axes |->
                  IF i = 0
                  THEN SetSpeedInHz(SetAcceleration(NoChannel, cfg[1]),
                                    cfg[2])
                  ELSE NoChannel]
    /\ pulseCounts = [i \in Axes |-> 0]
    /\ currentSpeedIndex = 0
    /\ pc = "idle"
    /\ shown = [i \in Axes |-> 0]
    /\ calls = [i \in Axes |-> <<>>]
    /\ last = [cmd |-> "none", steps |-> 0, rate |-> 0,
               counts |-> [i \in Axes |-> 0], pulses |-> [i \in Axes |-> 0],
               prevCmd |-> "none", prevSteps |-> 0, prevRate |-> 0,
               prevCounts |-> [i \in Axes |-> 0],
               prevPulses |-> [i \in Axes |-> 0]]
    /\ idxHist = <<>>
    /\ moves = 0
    /\ peak = [i \in Axes |-> 0]

RampMove ==
    /\ moves = 0
    /\ \E n \in RampStepCounts : \E sgn \in {1, -1} :
          moveBothMotors(sgn * n)

\* stop() on the channel while its move is in flight.
RampStop ==
    /\ pc = "wait"
    /\ ch[0].target_steps > 0
    /\ last.cmd = "move"
    /\ ch' = [ch EXCEPT ![0] = StopMove(ch[0])]
    /\ calls' = [calls EXCEPT ![0] = Append(calls[0], <<"stopMove", 0>>)]
    /\ last' = Started("stop", 0, ch[0].current_rate_hz)
    /\ UNCHANGED <<variant, grain, steppers, pulseCounts, currentSpeedIndex,
                   pc, shown, idxHist, moves, peak>>

NextRamp == RampMove \/ TickAny \/ WaitDone \/ RampStop

SpecRamp == InitRamp /\ [][NextRamp]_vars

(***************************************************************************)
(* Properties.                                                             *)
(***************************************************************************)
\* A move command has returned to loop().
MoveReturned == pc = "idle" /\ last.cmd = "move"

\* C1: once moveBothMotors has returned from a move of a nonzero signed step
\* count at a nonzero selected rate, the pulse count of every bound axis, and
\* the pulses the axis emitted, have changed by exactly that signed count.
C1_MoveChangesCountBySteps ==
    (MoveReturned /\ last.steps # 0 /\ last.rate # 0) =>
        \A i \in Axes :
            steppers[i] =>
                /\ pulseCounts[i] - last.counts[i] = last.steps
                /\ ch[i].cumulative_pulses - last.pulses[i] = last.steps

C1_Witness ==
    /\ MoveReturned /\ variant = "Accel" /\ last.rate # 0
    /\ last.steps = -16000
    /\ steppers[0] /\ steppers[1]
    /\ last.counts[0] = 16000
    /\ pulseCounts[0] = 0 /\ ch[0].cumulative_pulses = 0
    /\ pulseCounts[1] = 0 /\ ch[1].cumulative_pulses = 0

\* C2: in a sketch with a speed table, a move command issued while the
\* selected entry is 0 Hz leaves every pulseCounts entry unchanged.
C2_ZeroRateMoveKeepsCounts ==
    (HasProfile(variant) /\ last.cmd = "move" /\ last.rate = 0) =>
        pulseCounts = last.counts

\* C3 as stated: in every reachable state the pulse count of a bound axis
\* equals the net number of pulses the axis has emitted.
C3_CountEqualsEmitted ==
    \A i \in Axes : steppers[i] => pulseCounts[i] = ch[i].cumulative_pulses

\* C3 as amended: pulseCounts[i] changes only when a move command is issued,
\* for a bound axis, by the signed step count; emitting pulses never changes
\* pulseCounts; and after a move issued at a nonzero rate the change of the
\* count since the move was issued is ahead of the pulses emitted since then
\* by exactly the signed number of pulses still to be emitted.
C3_CountChangesAtIssue ==
    /\ [][\A i \in Axes :
            pulseCounts'[i] # pulseCounts[i] =>
                /\ steppers[i]
                /\ moves' = moves + 1
                /\ pulseCounts'[i] = pulseCounts[i] + last'.steps]_vars
    /\ [][(\E i \in Axes :
             ch'[i].cumulative_pulses # ch[i].cumulative_pulses) =>
                pulseCounts' = pulseCounts]_vars
    /\ [](\A i \in Axes :
            (steppers[i] /\ last.cmd = "move" /\ last.rate # 0) =>
                pulseCounts[i] - last.counts[i] =
                    (ch[i].cumulative_pulses - last.pulses[i])
                    + ch[i].direction * ch[i].target_steps)

C3_Witness ==
    /\ pc = "wait" /\ steppers[0]
    /\ ch[0].target_steps > 0
    /\ ch[0].cumulative_pulses # last.pulses[0]
    /\ pulseCounts[0] # ch[0].cumulative_pulses
    /\ last.counts[0] # 0

\* The latest handler called `op' on channel i.
Called(i, op) == \E k \in 1..Len(calls[i]) : calls[i][k][1] = op

\* C4: a move issued to a channel whose configured rate is 0 Hz emits no
\* pulse and leaves the channel idle, whatever the signed step count.
C4_ZeroRateMoveEmitsNothing ==
    \A i \in Axes :
        (steppers[i] /\ Called(i, "move") /\ ch[i].target_rate_hz = 0) =>
            /\ ~IsRunning(ch[i])
            /\ ch[i].target_steps = 0
            /\ ch[i].cumulative_pulses = last.pulses[i]

C4_Witness ==
    /\ variant = "AdjSpeed" /\ steppers[0] /\ steppers[1]
    /\ calls[0] = << <<"move", -3200>> >>
    /\ ch[0].target_rate_hz = 0
    /\ idxHist # <<>>
    /\ ch[0].cumulative_pulses = 3200 /\ ~IsRunning(ch[0])

\* C5: updateSpeed called speedLevelsCount times brings currentSpeedIndex
\* back to the value it had before the first of these calls (idxHist[1]),
\* whatever moves are interleaved; back at index 0 the rate is 0 Hz.
C5_CyclicLaw ==
    (HasProfile(variant) /\ Len(idxHist) = speedLevelsCount(variant)) =>
        /\ currentSpeedIndex = idxHist[1]
        /\ idxHist[1] = 0 => SelectedRate = 0

C5_Witness ==
    /\ variant = "Accel" /\ last.cmd = "speed"
    /\ idxHist = <<3, 4, 5, 0, 1, 2>>
    /\ currentSpeedIndex = 3
    /\ moves > 0

\* C6: currentSpeedIndex is always a valid index of speedLevels, and a call
\* of updateSpeed advances it by exactly one, from the last index to 0.
C6_IndexInRange ==
    /\ [](currentSpeedIndex \in 0..(speedLevelsCount(variant) - 1))
    /\ [][(idxHist' # idxHist \/ currentSpeedIndex' # currentSpeedIndex) =>
            /\ last'.cmd = "speed"
            /\ currentSpeedIndex' =
                 IF currentSpeedIndex = speedLevelsCount(variant) - 1
                 THEN 0 ELSE currentSpeedIndex + 1]_vars

C6_Witness ==
    /\ HasProfile(variant) /\ last.cmd = "speed"
    /\ Len(idxHist) > 0 /\ idxHist[Len(idxHist)] = 5
    /\ currentSpeedIndex = 0

\* C7: when updateSpeed selects a 0 Hz entry it calls stop on every bound
\* channel; when it selects a nonzero entry it stops no channel and writes
\* the new rate as the configured rate of every bound channel.
C7_UpdateSpeedStopsAtZero ==
    \A i \in Axes :
        (steppers[i] /\ last.cmd = "speed") =>
            IF last.rate = 0
            THEN Called(i, "stopMove")
            ELSE ~Called(i, "stopMove") /\ ch[i].target_rate_hz = last.rate

\* C8: an unbound axis is never configured, moved or stopped, its pulse
\* count never changes, and the wait never depends on it; a bound axis next
\* to it still gets the requested steps; with no axis bound no command
\* blocks.
C8_UnboundAxisSkipped ==
    /\ \A i \in Axes :
          ~steppers[i] =>
              /\ calls[i] = <<>>
              /\ ch[i] = NoChannel
              /\ pulseCounts[i] = 0
    /\ pc = "wait" =>
          \E i \in Axes : steppers[i] /\ Called(i, "move")
    /\ \A i \in Axes :
          (steppers[i] /\ MoveReturned /\ last.rate # 0) =>
              /\ pulseCounts[i] = last.counts[i] + last.steps
              /\ ch[i].cumulative_pulses = last.pulses[i] + last.steps
    /\ (\A i \in Axes : ~steppers[i]) => pc = "idle"

C8_Witness ==
    /\ ~steppers[0] /\ steppers[1]
    /\ MoveReturned /\ last.rate # 0 /\ moves = 2
    /\ pulseCounts[1] = 2 * last.steps
    /\ pulseCounts[0] = 0

\* C9: the wait loop of moveBothMotors ends, and the status is redrawn,
\* only in a state where no bound channel is running.
C9_WaitEndsWhenIdle ==
    [][(pc' = "idle" /\ (pc = "wait" \/ shown' # shown)) =>
         \A i \in Axes :
             steppers[i] =>
                 ch'[i].target_steps = 0 /\ ch'[i].current_rate_hz = 0]_vars

C9_Witness ==
    /\ MoveReturned /\ last.rate # 0
    /\ steppers[0] /\ steppers[1]
    /\ shown = pulseCounts /\ shown[0] # 0
    /\ \A i \in Axes : ch[i].cumulative_pulses = shown[i]

\* C10: under fair ticks and polling, a move in flight ends: every bound
\* channel becomes idle and the wait loop exits, back to loop().
C10_WaitTerminates ==
    (pc = "wait") ~>
        (pc = "idle" /\ \A i \in Axes : steppers[i] => ~IsRunning(ch[i]))

C10_Witness ==
    /\ MoveReturned /\ last.rate # 0 /\ last.steps # 0
    /\ steppers[0] /\ steppers[1]
    /\ ch[0].acceleration # 0
    /\ ch[0].cumulative_pulses = last.pulses[0] + last.steps
    /\ moves = MaxMoves

\* Fewest steps of a move that reaches the rate v at acceleration a: the
\* ramp up and the ramp down, which share the pulse at the top.
RampThreshold(a, v) == 2 * RampDistance(a, v) - 1

\* C11: for an acceleration and a target rate there is a step-count
\* threshold: a move of fewer steps never reaches the target rate, a move
\* of at least that many steps reaches it, and either move emits exactly the
\* requested pulses and ends at rate 0.
C11_RampRegimes ==
    \A i \in Axes :
        (steppers[i] /\ last.cmd = "move" /\ last.steps # 0
           /\ ch[i].target_rate_hz > 0) =>
            LET c == ch[i]
                thr == RampThreshold(c.acceleration, c.target_rate_hz)
            IN /\ Abs(last.steps) < thr => peak[i] < c.target_rate_hz
               /\ peak[i] <= c.target_rate_hz
               /\ c.target_steps = 0 =>
                     /\ Abs(last.steps) >= thr => peak[i] = c.target_rate_hz
                     /\ c.current_rate_hz = 0
                     /\ c.cumulative_pulses = last.pulses[i] + last.steps

C11_Witness ==
    /\ MoveReturned /\ last.steps = -9
    /\ ch[0].acceleration = 2 /\ ch[0].target_rate_hz = 4
    /\ peak[0] = 4
    /\ ch[0].cumulative_pulses = -9 /\ ch[0].current_rate_hz = 0

\* C13: the instantaneous rate of a channel never exceeds its configured
\* target rate, also after updateSpeed has lowered the target between moves.
C13_RateAtMostTarget ==
    \A i \in Axes :
        steppers[i] => ch[i].current_rate_hz <= ch[i].target_rate_hz

C13_Witness ==
    /\ last.cmd = "speed" /\ steppers[0] /\ moves > 0
    /\ ch[0].target_rate_hz > 0
    /\ ch[0].target_rate_hz < peak[0]
    /\ ch[0].cumulative_pulses # 0

\* The latest call on channel i was `op'.
LastCalled(i, op) ==
    Len(calls[i]) > 0 /\ calls[i][Len(calls[i])][1] = op

\* C14: right after stop() the rate and the remaining steps of the channel
\* are 0 and it is not running, and no pulse of the cancelled move is
\* emitted afterwards.
C14_StopIsHard ==
    \A i \in Axes :
        (steppers[i] /\ LastCalled(i, "stopMove")) =>
            /\ ch[i].current_rate_hz = 0
            /\ ch[i].target_steps = 0
            /\ ~IsRunning(ch[i])
            /\ ch[i].cumulative_pulses = last.pulses[i]

C14_Witness ==
    /\ last.cmd = "stop" /\ last.rate > 1 /\ pc = "idle"
    /\ calls[0] = << <<"move", 16>>, <<"stopMove", 0>> >>
    /\ ch[0].cumulative_pulses = 5
    /\ ~IsRunning(ch[0])

\* Position of the first call `op' on channel i in the latest handler, 0 if
\* the handler made no such call.
FirstCall(i, op) ==
    IF Called(i, op)
    THEN CHOOSE k \in 1..Len(calls[i]) :
             /\ calls[i][k][1] = op
             /\ \A j \in 1..(k - 1) : calls[i][j][1] # op
    ELSE 0

\* C15: in a move at a nonzero rate every bound channel is given the
\* acceleration and the selected rate before it is given move(steps) (the
\* v2.7 sketch makes both calls in moveBothMotors itself, in that order),
\* every bound channel is given the same signed step count, and the pulses
\* of the move are emitted under that configuration, none before it.
C15_ConfiguredBeforeMove ==
    (last.cmd = "move" /\ last.rate # 0) =>
        \A i \in Axes :
            steppers[i] =>
                LET n == Len(calls[i])
                IN /\ n > 0
                   /\ calls[i][n] = <<"move", last.steps>>
                   /\ FirstCall(i, "move") = n
                   /\ variant = "Accel" =>
                          /\ FirstCall(i, "setAcceleration") \in 1..(n - 1)
                          /\ FirstCall(i, "setSpeedInHz") \in 1..(n - 1)
                          /\ calls[i][FirstCall(i, "setAcceleration")][2]
                                 = accelerationRate(variant)
                          /\ calls[i][FirstCall(i, "setSpeedInHz")][2]
                                 = last.rate
                   /\ ch[i].acceleration = accelerationRate(variant)
                   /\ ch[i].target_rate_hz = last.rate
                   /\ ch[i].cumulative_pulses - last.pulses[i]
                          = last.steps - ch[i].direction * ch[i].target_steps
                   /\ peak[i] <= last.rate

C15_Witness ==
    /\ variant = "Accel" /\ steppers[0] /\ steppers[1]
    /\ last.cmd = "move" /\ last.rate = 1600 /\ last.steps = -16000
    /\ pc = "wait"
    /\ \A i \in Axes :
          /\ calls[i] = << <<"setAcceleration", 2000>>,
                           <<"setSpeedInHz", 1600>>, <<"move", -16000>> >>
          /\ ch[i].cumulative_pulses = last.pulses[i]

\* C16: a move at zero selected rate calls stop() on every bound channel,
\* issues no move(), does not enter the wait loop and leaves every channel
\* idle; selecting the zero entry by updateSpeed starts no motion either.
C16_ZeroRateKeepsIdle ==
    /\ (last.cmd = "move" /\ last.rate = 0) =>
           /\ pc = "idle"
           /\ \A i \in Axes :
                 steppers[i] => /\ Called(i, "stopMove")
                                /\ ~Called(i, "move")
                                /\ ~IsRunning(ch[i])
    /\ (last.cmd = "speed" /\ last.rate = 0) =>
           /\ pc = "idle"
           /\ \A i \in Axes : steppers[i] => ~IsRunning(ch[i])

\* C17: while a bound channel is running no handler runs: no move is
\* issued, no speed is selected, and the configuration and the goal of
\* every channel stay as they are; only pulses are emitted.
C17_NoCommandWhileMoving ==
    [][(\E i \in Axes : steppers[i] /\ IsRunning(ch[i])) =>
           /\ moves' = moves
           /\ idxHist' = idxHist
           /\ currentSpeedIndex' = currentSpeedIndex
           /\ calls' = calls
           /\ \A i \in Axes :
                 /\ ch'[i].target_rate_hz = ch[i].target_rate_hz
                 /\ ch'[i].acceleration = ch[i].acceleration
                 /\ ch'[i].direction = ch[i].direction
                 /\ ch'[i].move_steps = ch[i].move_steps
                 /\ ch'[i].target_steps <= ch[i].target_steps]_vars

C17_Witness ==
    /\ steppers[0] /\ steppers[1]
    /\ moves = 2 /\ last.cmd = "move" /\ pc = "wait"
    /\ last.pulses[0] # 0
    /\ IsRunning(ch[0]) /\ IsRunning(ch[1])
    /\ ch[0].cumulative_pulses # last.pulses[0]

\* C18: updateSpeed changes currentSpeedIndex and the configured rate of
\* the bound channels and leaves the pulse counts (and the emitted pulses)
\* as they are; moveBothMotors leaves currentSpeedIndex and the
\* acceleration of every channel as they are.
C18_Frames ==
    [][/\ idxHist' # idxHist =>
              /\ pulseCounts' = pulseCounts
              /\ moves' = moves
              /\ currentSpeedIndex' # currentSpeedIndex
              /\ \A i \in Axes :
                    /\ ch'[i].cumulative_pulses = ch[i].cumulative_pulses
                    /\ steppers[i] =>
                           ch'[i].target_rate_hz
                               = SpeedAt(variant, currentSpeedIndex')
       /\ moves' # moves =>
              /\ currentSpeedIndex' = currentSpeedIndex
              /\ idxHist' = idxHist
              /\ \A i \in Axes :
                    ch'[i].acceleration = ch[i].acceleration]_vars

C18_Witness ==
    /\ variant = "Accel" /\ steppers[0]
    /\ last.cmd = "move" /\ last.rate = 0 /\ moves = 2
    /\ currentSpeedIndex = 0 /\ Len(idxHist) = speedLevelsCount(variant)
    /\ pulseCounts[0] = 16000
    /\ ch[0].acceleration = 2000

\* C19: with both steppers bound the two pulse counts are always equal,
\* and whenever the sketch is back in loop() both channels are idle and
\* have emitted the same pulses.
C19_AxesInStep ==
    (steppers[0] /\ steppers[1]) =>
        /\ pulseCounts[0] = pulseCounts[1]
        /\ pc = "idle" =>
               /\ ~IsRunning(ch[0]) /\ ~IsRunning(ch[1])
               /\ ch[0].cumulative_pulses = ch[1].cumulative_pulses

C19_Witness ==
    /\ steppers[0] /\ steppers[1] /\ MoveReturned /\ moves = 3
    /\ pulseCounts[0] = -3200 /\ pulseCounts[1] = -3200
    /\ ch[0].cumulative_pulses = -3200 /\ ch[1].cumulative_pulses = -3200

\* C20: whenever the sketch is in loop(), the configured rate of every
\* bound channel is speedLevels[currentSpeedIndex].
C20_RateInStep ==
    pc = "idle" =>
        \A i \in Axes : steppers[i] => ch[i].target_rate_hz = SelectedRate

C20_Witness ==
    /\ variant = "Accel" /\ steppers[0] /\ pc = "idle"
    /\ last.cmd = "speed" /\ last.rate = 0 /\ currentSpeedIndex = 0
    /\ idxHist[Len(idxHist)] = speedLevelsCount(variant) - 1
    /\ moves > 0 /\ ch[0].cumulative_pulses # 0
    /\ ch[0].target_rate_hz = 0

\* The latest two handlers were a forward and then a backward press of the
\* move buttons, at the same nonzero speed entry.
ForwardThenBackward ==
    /\ last.cmd = "move" /\ last.prevCmd = "move"
    /\ last.prevSteps = PressSteps(variant)
    /\ last.steps = -PressSteps(variant)
    /\ last.rate # 0 /\ last.prevRate = last.rate

\* C21: once a backward move that follows a forward move at the same
\* nonzero speed entry has returned, the pulse count of every bound axis,
\* and the pulses the axis emitted, are what they were before the forward
\* move; and whenever the sketch is in loop() every pulse count is an
\* integer multiple of the step count of one press.
C21_RoundTripAndMultiples ==
    /\ (MoveReturned /\ ForwardThenBackward) =>
           \A i \in Axes :
               steppers[i] =>
                   /\ pulseCounts[i] = last.prevCounts[i]
                   /\ ch[i].cumulative_pulses = last.prevPulses[i]
                   /\ last.counts[i] = last.prevCounts[i] + PressSteps(variant)
    /\ pc = "idle" =>
           \A i \in Axes :
               \E k \in (-MaxMoves)..MaxMoves :
                   pulseCounts[i] = k * PressSteps(variant)

C21_Witness ==
    /\ MoveReturned /\ ForwardThenBackward
    /\ variant = "Accel" /\ steppers[0] /\ steppers[1]
    /\ moves = 3 /\ last.rate = 4800
    /\ last.prevCounts[0] = -16000 /\ last.counts[0] = 0
    /\ pulseCounts[0] = -16000 /\ pulseCounts[1] = -16000
    /\ ch[0].cumulative_pulses = -16000

====
